---- MODULE Spec2Model ----
(***************************************************************************)
(* The Xiaomi 1C vacuum entity (custom_components/xiaomi_vacuum/vacuum.py) *)
(* as a state machine: the fields of Xiaomi1CVacuum, one action per        *)
(* platform call (update and the seven commands), the properties the       *)
(* platform reads as operators over the fields.  The device client is an   *)
(* opaque collaborator: each call on it either returns or raises           *)
(* DeviceException, and status() may report any values.                    *)
(***************************************************************************)
EXTENDS Integers, Sequences, FiniteSets, TLC

\* ------------------------------------------------------------------ bounds
\* Status codes reported by the device are drawn from 0..MaxStatus
\* (1..6 are mapped, 0 and everything above 6 are not).
MaxStatus == 7
\* Fan-speed integers reported by the device are drawn from 0..MaxFan
\* (0..3 have names, everything above 3 has none).
MaxFan == 4
\* Error codes reported by the device are drawn from 0..MaxError.
MaxError == 1

\* ------------------------------------------------------------ python values
\* Python's None in an Optional[int] field (no device integer is negative).
None == -1
\* Python's None where a string or an enum member is expected.
NoValue == "None"

\* ---------------------------------------------------------------- constants
FAN_SPEEDS == [Silent |-> 0, Standard |-> 1, Medium |-> 2, Turbo |-> 3]

STATUS_TO_ACTIVITY ==
    1 :> "CLEANING" @@ 2 :> "IDLE" @@ 3 :> "PAUSED" @@
    4 :> "ERROR" @@ 5 :> "RETURNING" @@ 6 :> "DOCKED"

\* dict.get(key, default)
dict_get(d, key, default) == IF key \in DOMAIN d THEN d[key] ELSE default

\* ------------------------------------------------------------------- inputs
\* What a device call can do: return, or raise DeviceException.
Outcomes == {"returned", "DeviceException"}

ReportFields == {"battery", "fan_speed", "status", "error", "last_clean", "area"}

\* The status a healthy docked vacuum reports.
Nominal ==
    [battery |-> 100, fan_speed |-> 1, status |-> 6, error |-> 0,
     last_clean |-> 30, area |-> 12]

\* The values status() may report in each field.
ReportValues ==
    [battery |-> {None, 15, 100},
     fan_speed |-> {None} \cup 0..MaxFan,
     status |-> {None} \cup 0..MaxStatus,
     error |-> {None} \cup 0..MaxError,
     last_clean |-> {None, 30},
     area |-> {None, 12}]

\* status() is opaque, so any report is possible.  The model draws the
\* reports that differ from the nominal one in at most two fields: every
\* value of every field occurs together with every value of every other.
Reports ==
    UNION {
        {[[Nominal EXCEPT ![f] = x] EXCEPT ![g] = y] :
            x \in ReportValues[f], y \in ReportValues[g]} :
        f \in ReportFields, g \in ReportFields}

\* Names passed to set_fan_speed: the four keys and two that are none.
FanSpeedArgs == {"Silent", "Standard", "Medium", "Turbo", "turbo", "Max"}

Commands == {"action"}

\* The params argument of send_command: None, an empty one, a non-empty one.
ParamsArgs ==
    {[none |-> TRUE, items |-> <<>>],
     [none |-> FALSE, items |-> <<>>],
     [none |-> FALSE, items |-> <<1>>]}

\* -------------------------------------------------------------------- state
VARIABLES
    _available, _battery, _fan_speed, _status, _error, _clean_time, _clean_area,
    op,          \* the platform call that ran last: [name, args]
    calls,       \* the calls it made on the device client, in order
    exc,         \* the exception it let through to its caller, or NoValue
    lastUpdate,  \* how the most recent update's status() ended, or "none"
    prevUpdate,  \* how the update before that one ended, or "none"
    succeeded    \* whether some update's status() has returned

entity ==
    <<_available, _battery, _fan_speed, _status, _error, _clean_time, _clean_area>>

history == <<lastUpdate, prevUpdate, succeeded>>

vars == <<entity, op, calls, exc, history>>

CommandNames ==
    {"start", "stop", "pause", "return_to_base", "locate", "set_fan_speed",
     "send_command"}

device_call(method, args, outcome) ==
    [method |-> method, args |-> args, outcome |-> outcome]

\* --------------------------------------------------------------- properties
available == _available

\* Fault: STATUS_TO_ACTIVITY.get(self._status) without the IDLE default.
activity_without_default ==
    IF _status = None THEN NoValue
    ELSE dict_get(STATUS_TO_ACTIVITY, _status, NoValue)

activity ==
    IF _status = None THEN NoValue
    ELSE dict_get(STATUS_TO_ACTIVITY, _status, "IDLE")

battery_level == _battery

rev == [v \in {FAN_SPEEDS[k] : k \in DOMAIN FAN_SPEEDS} |->
            CHOOSE k \in DOMAIN FAN_SPEEDS : FAN_SPEEDS[k] = v]

\* Fault: the lookup goes through FAN_SPEEDS itself instead of its inverse,
\* so no integer is ever found and the default is returned.
fan_speed_not_reversed ==
    IF _fan_speed = None THEN NoValue
    ELSE "Standard"

fan_speed ==
    IF _fan_speed = None THEN NoValue
    ELSE dict_get(rev, _fan_speed, "Standard")

fan_speed_list == <<"Silent", "Standard", "Medium", "Turbo">>

\* Fault: error_code is reported whenever an error code is stored, 0 included.
extra_state_attributes_with_zero ==
    LET keys ==
            (IF _clean_time # None THEN {"cleaning_time"} ELSE {})
            \cup (IF _clean_area # None THEN {"cleaning_area"} ELSE {})
            \cup (IF _error # None THEN {"error_code"} ELSE {})
    IN  [k \in keys |->
            CASE k = "cleaning_time" -> _clean_time
              [] k = "cleaning_area" -> _clean_area
              [] k = "error_code" -> _error]

extra_state_attributes ==
    LET keys ==
            (IF _clean_time # None THEN {"cleaning_time"} ELSE {})
            \cup (IF _clean_area # None THEN {"cleaning_area"} ELSE {})
            \cup (IF _error # None /\ _error # 0 THEN {"error_code"} ELSE {})
    IN  [k \in keys |->
            CASE k = "cleaning_time" -> _clean_time
              [] k = "cleaning_area" -> _clean_area
              [] k = "error_code" -> _error]

\* --------------------------------------------------------------------- init
\* Fault: the entity is constructed available.
Init_available ==
    /\ _available = TRUE
    /\ _battery = None
    /\ _fan_speed = None
    /\ _status = None
    /\ _error = None
    /\ _clean_time = None
    /\ _clean_area = None
    /\ op = [name |-> "__init__", args |-> <<>>]
    /\ calls = <<>>
    /\ exc = NoValue
    /\ lastUpdate = "none"
    /\ prevUpdate = "none"
    /\ succeeded = FALSE

Init ==
    /\ _available = FALSE
    /\ _battery = None
    /\ _fan_speed = None
    /\ _status = None
    /\ _error = None
    /\ _clean_time = None
    /\ _clean_area = None
    /\ op = [name |-> "__init__", args |-> <<>>]
    /\ calls = <<>>
    /\ exc = NoValue
    /\ lastUpdate = "none"
    /\ prevUpdate = "none"
    /\ succeeded = FALSE

\* ------------------------------------------------------------------ actions
\* Fault: the except branch logs the error and forgets the flag.
update_keeps_available ==
    /\ op' = [name |-> "update", args |-> <<>>]
    /\ exc' = NoValue
    /\ \/ /\ calls' = <<device_call("status", <<>>, "returned")>>
          /\ \E status \in Reports :
                /\ _available' = TRUE
                /\ _battery' = status.battery
                /\ _fan_speed' = status.fan_speed
                /\ _status' = status.status
                /\ _error' = status.error
                /\ _clean_time' = status.last_clean
                /\ _clean_area' = status.area
          /\ lastUpdate' = "returned"
          /\ prevUpdate' = lastUpdate
          /\ succeeded' = TRUE
       \/ /\ calls' = <<device_call("status", <<>>, "DeviceException")>>
          /\ UNCHANGED _available
          /\ UNCHANGED <<_battery, _fan_speed, _status, _error, _clean_time, _clean_area>>
          /\ lastUpdate' = "DeviceException"
          /\ prevUpdate' = lastUpdate
          /\ UNCHANGED succeeded

\* Fault: the except branch also drops what the last successful update stored.
update_clears_state ==
    /\ op' = [name |-> "update", args |-> <<>>]
    /\ exc' = NoValue
    /\ \/ /\ calls' = <<device_call("status", <<>>, "returned")>>
          /\ \E status \in Reports :
                /\ _available' = TRUE
                /\ _battery' = status.battery
                /\ _fan_speed' = status.fan_speed
                /\ _status' = status.status
                /\ _error' = status.error
                /\ _clean_time' = status.last_clean
                /\ _clean_area' = status.area
          /\ lastUpdate' = "returned"
          /\ prevUpdate' = lastUpdate
          /\ succeeded' = TRUE
       \/ /\ calls' = <<device_call("status", <<>>, "DeviceException")>>
          /\ _available' = FALSE
          /\ _battery' = None
          /\ _fan_speed' = None
          /\ _status' = None
          /\ _error' = None
          /\ _clean_time' = None
          /\ _clean_area' = None
          /\ lastUpdate' = "DeviceException"
          /\ prevUpdate' = lastUpdate
          /\ UNCHANGED succeeded

update ==
    /\ op' = [name |-> "update", args |-> <<>>]
    /\ exc' = NoValue
    /\ \/ /\ calls' = <<device_call("status", <<>>, "returned")>>
          /\ \E status \in Reports :
                /\ _available' = TRUE
                /\ _battery' = status.battery
                /\ _fan_speed' = status.fan_speed
                /\ _status' = status.status
                /\ _error' = status.error
                /\ _clean_time' = status.last_clean
                /\ _clean_area' = status.area
          /\ lastUpdate' = "returned"
          /\ prevUpdate' = lastUpdate
          /\ succeeded' = TRUE
       \/ /\ calls' = <<device_call("status", <<>>, "DeviceException")>>
          /\ _available' = FALSE
          /\ UNCHANGED <<_battery, _fan_speed, _status, _error, _clean_time, _clean_area>>
          /\ lastUpdate' = "DeviceException"
          /\ prevUpdate' = lastUpdate
          /\ UNCHANGED succeeded

\* A one-line command: one call on the device client, whose exception (if
\* any) is not caught.
delegate(name, args, method, margs) ==
    \E outcome \in Outcomes :
        /\ op' = [name |-> name, args |-> args]
        /\ calls' = <<device_call(method, margs, outcome)>>
        /\ exc' = (IF outcome = "returned" THEN NoValue ELSE outcome)
        /\ UNCHANGED <<entity, history>>

\* Fault: start catches DeviceException and marks the entity unavailable.
start_marks_unavailable ==
    \E outcome \in Outcomes :
        /\ op' = [name |-> "start", args |-> <<>>]
        /\ calls' = <<device_call("start", <<>>, outcome)>>
        /\ exc' = NoValue
        /\ _available' = (IF outcome = "returned" THEN _available ELSE FALSE)
        /\ UNCHANGED <<_battery, _fan_speed, _status, _error, _clean_time, _clean_area>>
        /\ UNCHANGED history

start == delegate("start", <<>>, "start", <<>>)

stop == delegate("stop", <<>>, "stop", <<>>)

\* Fault: pause is forwarded to a pause method of the client.
pause_calls_pause == delegate("pause", <<>>, "pause", <<>>)

pause == delegate("pause", <<>>, "stop_sweeping", <<>>)

return_to_base == delegate("return_to_base", <<>>, "return_home", <<>>)

locate == delegate("locate", <<>>, "find", <<>>)

\* Fault: no membership test, FAN_SPEEDS.get(fan_speed, 1) is sent.
set_fan_speed_unchecked ==
    \E name \in FanSpeedArgs :
        delegate("set_fan_speed", <<name>>,
                 "set_fan_speed", <<dict_get(FAN_SPEEDS, name, 1)>>)

\* Fault: the speed is stored as soon as the device accepts it.
set_fan_speed_optimistic ==
    \E name \in FanSpeedArgs :
        IF name \notin DOMAIN FAN_SPEEDS
        THEN /\ op' = [name |-> "set_fan_speed", args |-> <<name>>]
             /\ calls' = <<>>
             /\ exc' = NoValue
             /\ UNCHANGED <<entity, history>>
        ELSE \E outcome \in Outcomes :
                /\ op' = [name |-> "set_fan_speed", args |-> <<name>>]
                /\ calls' = <<device_call("set_fan_speed", <<FAN_SPEEDS[name]>>, outcome)>>
                /\ exc' = (IF outcome = "returned" THEN NoValue ELSE outcome)
                /\ _fan_speed' = (IF outcome = "returned" THEN FAN_SPEEDS[name] ELSE _fan_speed)
                /\ UNCHANGED <<_available, _battery, _status, _error, _clean_time, _clean_area>>
                /\ UNCHANGED history

set_fan_speed ==
    \E name \in FanSpeedArgs :
        IF name \notin DOMAIN FAN_SPEEDS
        THEN /\ op' = [name |-> "set_fan_speed", args |-> <<name>>]
             /\ calls' = <<>>
             /\ exc' = NoValue
             /\ UNCHANGED <<entity, history>>
        ELSE delegate("set_fan_speed", <<name>>, "set_fan_speed", <<FAN_SPEEDS[name]>>)

\* params or []
params_or_list(params) ==
    IF params.none \/ params.items = <<>> THEN <<>> ELSE params.items

send_command ==
    \E command \in Commands, params \in ParamsArgs :
        delegate("send_command", <<command, params>>,
                 "raw_command", <<command, params_or_list(params)>>)

Next ==
    \/ update
    \/ start
    \/ stop
    \/ pause
    \/ return_to_base
    \/ locate
    \/ set_fan_speed
    \/ send_command

Spec == Init /\ [][Next]_vars

\* ------------------------------------------------------- claim vocabulary
IsCommand(o) == o.name \in CommandNames

\* The device method each command is said to correspond to.
ClaimedMethod ==
    [start |-> "start", stop |-> "stop", pause |-> "stop_sweeping",
     return_to_base |-> "return_home", locate |-> "find",
     set_fan_speed |-> "set_fan_speed", send_command |-> "raw_command"]

FanSpeedNames == {fan_speed_list[i] : i \in DOMAIN fan_speed_list}

InvalidFanSpeed(o) ==
    o.name = "set_fan_speed" /\ o.args[1] \notin DOMAIN FAN_SPEEDS

UpdateReturned ==
    op.name = "update" /\ calls[1].outcome = "returned"

UpdateFailed ==
    op.name = "update" /\ calls[1].outcome = "DeviceException"

CommandRaised ==
    IsCommand(op) /\ calls # <<>> /\ calls[1].outcome = "DeviceException"

\* What the platform can read off the entity.
visible ==
    <<available, activity, battery_level, fan_speed, extra_state_attributes>>

stored == <<_battery, _fan_speed, _status, _error, _clean_time, _clean_area>>

\* ----------------------------------------------------------------------- C1
\* C1: in every reachable state `available` is the outcome of the most
\* recent update(): True iff that update's status() call returned; False
\* if it raised DeviceException or if no update has run yet.  Commands in
\* between do not change this.
C1_AvailableIsLastUpdate ==
    available = (lastUpdate = "returned")

\* An update failed, the next one succeeded, a command has since raised,
\* and the entity is available.
C1_Witness ==
    /\ prevUpdate = "DeviceException"
    /\ lastUpdate = "returned"
    /\ CommandRaised
    /\ available

\* ----------------------------------------------------------------------- C2
\* C2 as stated: every command, for every argument value, makes exactly
\* one call on the device client, to the method that corresponds to it.
C2_Original ==
    IsCommand(op) =>
        /\ Len(calls) = 1
        /\ calls[1].method = ClaimedMethod[op.name]

\* C2 as amended: every command makes exactly one call on the device
\* client, to the method that corresponds to it, whether that call returns
\* or raises, except set_fan_speed with a name that is not a key of
\* FAN_SPEEDS, which makes no call at all.
C2_Amended ==
    IsCommand(op) =>
        IF InvalidFanSpeed(op)
        THEN calls = <<>>
        ELSE /\ Len(calls) = 1
             /\ calls[1].method = ClaimedMethod[op.name]

\* pause has run while the device was failing: one call, to stop_sweeping.
C2_Witness ==
    /\ op.name = "pause"
    /\ Len(calls) = 1
    /\ calls[1].method = "stop_sweeping"
    /\ calls[1].outcome = "DeviceException"

\* ----------------------------------------------------------------------- C3
\* C3 as stated: once a command whose device call raised a device
\* exception has finished, the entity is unavailable.
C3_Original ==
    CommandRaised => ~available

\* C3 as amended: a command whose device call raises a device exception
\* does not catch it: the exception reaches the caller and `available`
\* keeps the value it had before the command.
C3_Amended ==
    [][CommandRaised' =>
        /\ exc' = "DeviceException"
        /\ _available' = _available]_vars

\* A command has raised and the entity is still available.
C3_Witness ==
    /\ CommandRaised
    /\ exc = "DeviceException"
    /\ available

\* ----------------------------------------------------------------------- C4
\* C4: `activity` is this fixed function of the stored status code and of
\* nothing else: None when no status is stored, CLEANING for 1, IDLE for
\* 2, PAUSED for 3, ERROR for 4, RETURNING for 5, DOCKED for 6, IDLE for
\* every other code.
C4_ActivityTable ==
    activity =
        CASE _status = None -> NoValue
          [] _status = 1 -> "CLEANING"
          [] _status = 2 -> "IDLE"
          [] _status = 3 -> "PAUSED"
          [] _status = 4 -> "ERROR"
          [] _status = 5 -> "RETURNING"
          [] _status = 6 -> "DOCKED"
          [] OTHER -> "IDLE"

\* An unmapped code is stored, next to an error code, in an unavailable
\* entity: the activity is IDLE all the same.
C4_Witness ==
    /\ _status \notin {None, 1, 2, 3, 4, 5, 6}
    /\ _error \notin {None, 0}
    /\ ~available
    /\ activity = "IDLE"

\* ----------------------------------------------------------------------- C5
\* C5: for every name in fan_speed_list, set_fan_speed(name) sends
\* FAN_SPEEDS[name] to the device, and whenever the stored integer is
\* FAN_SPEEDS[name] the `fan_speed` property is that name; a stored integer
\* outside 0..3 is shown as "Standard" and no stored value as None.  In
\* particular, an update that follows set_fan_speed(name) and reports the
\* integer that was sent makes `fan_speed` show that name.
C5_Mapping ==
    /\ (op.name = "set_fan_speed" /\ op.args[1] \in FanSpeedNames) =>
            /\ Len(calls) = 1
            /\ calls[1].method = "set_fan_speed"
            /\ calls[1].args = <<FAN_SPEEDS[op.args[1]]>>
    /\ \A name \in FanSpeedNames :
            _fan_speed = FAN_SPEEDS[name] => fan_speed = name
    /\ (_fan_speed # None /\ _fan_speed \notin 0..3) => fan_speed = "Standard"
    /\ _fan_speed = None => fan_speed = NoValue

C5_SetThenUpdate ==
    (/\ op.name = "set_fan_speed"
     /\ calls # <<>>
     /\ UpdateReturned'
     /\ _fan_speed' = calls[1].args[1])
        => fan_speed' = op.args[1]

C5_FanSpeedRoundTrip ==
    [](C5_Mapping) /\ [][C5_SetThenUpdate]_vars

\* The device reported 3 and the property shows "Turbo".
C5_Witness ==
    /\ UpdateReturned
    /\ _fan_speed = FAN_SPEEDS["Turbo"]
    /\ fan_speed = "Turbo"

\* ----------------------------------------------------------------------- C6
\* C6: set_fan_speed with a name that is not a key of FAN_SPEEDS makes no
\* call on the device client, raises nothing, and leaves every field of
\* the entity as it was.
C6_InvalidFanSpeedIsNoOp ==
    [][InvalidFanSpeed(op') =>
        /\ calls' = <<>>
        /\ exc' = NoValue
        /\ UNCHANGED entity]_vars

\* An invalid name was passed to an available entity that has state stored.
C6_Witness ==
    /\ InvalidFanSpeed(op)
    /\ calls = <<>>
    /\ available
    /\ _fan_speed # None

\* ----------------------------------------------------------------------- C7
\* C7: an update() whose status() call raises DeviceException calls
\* status() once, lets no exception through, sets `available` to False and
\* changes nothing else: the stored fields, and with them activity,
\* battery_level, fan_speed and extra_state_attributes, stay as they were.
C7_FailedUpdateFrame ==
    [][UpdateFailed' =>
        /\ calls' = <<device_call("status", <<>>, "DeviceException")>>
        /\ exc' = NoValue
        /\ ~available'
        /\ UNCHANGED stored
        /\ activity' = activity
        /\ battery_level' = battery_level
        /\ fan_speed' = fan_speed
        /\ extra_state_attributes' = extra_state_attributes]_vars

\* The entity is unavailable after a failed update and still reports what
\* the last successful update stored.
C7_Witness ==
    /\ UpdateFailed
    /\ ~available
    /\ succeeded
    /\ battery_level # None
    /\ activity # NoValue
    /\ fan_speed # NoValue
    /\ DOMAIN extra_state_attributes # {}

\* ----------------------------------------------------------------------- C8
\* C8: no command changes a field of the entity, nor anything the platform
\* reads off it, whether the device call returned or raised and whether or
\* not the entity was available.
C8_CommandsChangeNothing ==
    [][IsCommand(op') => UNCHANGED entity /\ UNCHANGED visible]_vars

\* set_fan_speed("Turbo") was accepted by the device while the entity was
\* unavailable, and `fan_speed` still shows the value of the last update.
C8_Witness ==
    /\ op = [name |-> "set_fan_speed", args |-> <<"Turbo">>]
    /\ calls = <<device_call("set_fan_speed", <<3>>, "returned")>>
    /\ ~available
    /\ fan_speed = "Standard"

\* ----------------------------------------------------------------------- C9
\* C9: as long as no update() has succeeded, the entity is unavailable,
\* activity, battery_level and fan_speed are None and
\* extra_state_attributes is empty.
C9_NothingBeforeFirstSuccess ==
    ~succeeded =>
        /\ ~available
        /\ activity = NoValue
        /\ battery_level = None
        /\ fan_speed = NoValue
        /\ DOMAIN extra_state_attributes = {}

\* Updates have failed and a command has run, none has succeeded.
C9_Witness ==
    /\ ~succeeded
    /\ lastUpdate = "DeviceException"
    /\ IsCommand(op)
    /\ calls # <<>>

\* ---------------------------------------------------------------------- C10
\* C10: extra_state_attributes has the key error_code exactly when the
\* stored error code is neither None nor 0, cleaning_time exactly when a
\* clean time is stored, cleaning_area exactly when a clean area is
\* stored, each with the stored value, and no other key.
C10_AttributeKeys ==
    LET attrs == extra_state_attributes IN
    /\ DOMAIN attrs \subseteq {"error_code", "cleaning_time", "cleaning_area"}
    /\ "error_code" \in DOMAIN attrs <=> (_error # None /\ _error # 0)
    /\ "error_code" \in DOMAIN attrs => attrs["error_code"] = _error
    /\ "cleaning_time" \in DOMAIN attrs <=> _clean_time # None
    /\ "cleaning_time" \in DOMAIN attrs => attrs["cleaning_time"] = _clean_time
    /\ "cleaning_area" \in DOMAIN attrs <=> _clean_area # None
    /\ "cleaning_area" \in DOMAIN attrs => attrs["cleaning_area"] = _clean_area

\* A successful update that reports error 0 removes error_code.
C10_ErrorCleared ==
    (/\ "error_code" \in DOMAIN extra_state_attributes
     /\ UpdateReturned'
     /\ _error' = 0)
        => "error_code" \notin DOMAIN extra_state_attributes'

C10_Attributes ==
    [](C10_AttributeKeys) /\ [][C10_ErrorCleared]_vars

\* The last update reported error 0 with a clean time and no clean area.
C10_Witness ==
    /\ UpdateReturned
    /\ _error = 0
    /\ DOMAIN extra_state_attributes = {"cleaning_time"}
====
